---------------------------- MODULE Spec2Model ----------------------------
(***************************************************************************)
(* MiniLang analysis pipeline: bounded loop unrolling, SSA conversion,     *)
(* encoding of SSA into integer constraints, assertion checking and        *)
(* program equivalence checking.                                           *)
(*                                                                         *)
(* Python strings that the code formats or splits (variable names,         *)
(* versioned names "x_1", solver symbols "p1_x_1") are sequences of        *)
(* one-character strings, so that f"{var}_{n}" and var.split('_')[0] are   *)
(* computed and not assumed.  Python tuples are records with a tag.        *)
(* Python's None / list alternatives (else_block) are << >> for None and   *)
(* << block >> for a present block.                                        *)
(***************************************************************************)
EXTENDS Integers, Sequences, FiniteSets, TLC

VARIABLES
    pc,            \* position in the pipeline under analysis
    unroll_bound,  \* unroll_loops' parameter
    ast,           \* the input program(s): <<ast>> or <<ast1, ast2>>
    new_ast,       \* unroll_loops' result
    calls,         \* number of calls made so far (unroll_loops / convert)
    conv,          \* the SSAConverter instance(s): counter, env, ssa
    smt,           \* the SMTGenerator instance(s): vars, path_condition, constraints
    eq,            \* check_program_equivalence's locals
    result         \* the verdict returned

vars == <<pc, unroll_bound, ast, new_ast, calls, conv, smt, eq, result>>

(***************************************************************************)
(* Bounds of the model.                                                    *)
(***************************************************************************)
MaxUnroll == 2     \* unroll_bound ranges over 0..MaxUnroll
MaxStmts == 2      \* top-level statements of an input of unroll_loops
MaxCalls == 2      \* successive calls on one input / one instance

(***************************************************************************)
(* Generic sequence helpers.                                               *)
(***************************************************************************)
RECURSIVE Concat(_)
Concat(ss) == IF ss = <<>> THEN <<>> ELSE Head(ss) \o Concat(Tail(ss))

Repeat(s, n) == Concat([i \in 1..n |-> s])

SeqsUpTo(S, n) == UNION {[1..m -> S] : m \in 0..n}

Range(s) == {s[i] : i \in DOMAIN s}

(***************************************************************************)
(* AST nodes, as the transformer builds them.                              *)
(***************************************************************************)
None == <<>>
Some(b) == <<b>>

Num(n) == [tag |-> "num", val |-> n]
Var(name) == [tag |-> "var", name |-> name]
Bin(op, l, r) == [tag |-> op, left |-> l, right |-> r]
Cond(op, l, r) == [tag |-> "cond", op |-> op, left |-> l, right |-> r]

Assign(v, e) == [tag |-> "assign", var |-> v, expr |-> e]
If(c, t, e) == [tag |-> "if", cond |-> c, then_block |-> t, else_block |-> e]
AssertStmt(c) == [tag |-> "assert", cond |-> c]
For(init, c, update, body) ==
    [tag |-> "for", init |-> init, cond |-> c, update |-> update, body |-> body]
While(c, body) == [tag |-> "while", cond |-> c, body |-> body]

\* Python truthiness of `if else_block:` (None and [] are both false).
Truthy(opt) == opt # None /\ opt[1] # <<>>

(***************************************************************************)
(* loop_unroller.unroll_loops                                              *)
(***************************************************************************)
is_loop(stmt) == stmt.tag \in {"for", "while"}

RECURSIVE unroll_stmt(_, _)
unroll_block(block, k) ==
    Concat([i \in 1..Len(block) |->
              IF is_loop(block[i]) THEN unroll_stmt(block[i], k) ELSE <<block[i]>>])

unroll_stmt(stmt, k) ==
    CASE stmt.tag = "for" ->
           <<stmt.init>> \o
           Repeat(<<If(stmt.cond, stmt.body, None)>> \o stmt.body \o <<stmt.update>>, k)
      [] stmt.tag = "while" ->
           Repeat(<<If(stmt.cond, stmt.body, None)>> \o stmt.body, k)
      [] stmt.tag = "if" ->
           LET then_unrolled == unroll_block(stmt.then_block, k)
               else_unrolled == IF Truthy(stmt.else_block)
                                THEN unroll_block(stmt.else_block[1], k)
                                ELSE <<>>
           IN  <<If(stmt.cond, then_unrolled,
                    IF Truthy(stmt.else_block) THEN Some(else_unrolled) ELSE None)>>
      [] OTHER -> <<stmt>>

\* A slip that sends every statement through unroll_stmt.
unroll_loops_all(a, k) == Concat([i \in 1..Len(a) |-> unroll_stmt(a[i], k)])

unroll_loops(a, k) ==
    Concat([i \in 1..Len(a) |->
              IF is_loop(a[i]) THEN unroll_stmt(a[i], k) ELSE <<a[i]>>])

(***************************************************************************)
(* parser.MiniLangTransformer: the callbacks that build the AST from the   *)
(* parse tree.  A parse tree is a sequence of statement nodes; for and     *)
(* while nodes are unrolled by their callbacks, which return a Python list *)
(* (modelled as a node tagged "list"); start flattens the lists it is      *)
(* handed, and only those.                                                 *)
(***************************************************************************)
max_iterations == 3

List(items) == [tag |-> "list", items |-> items]

\* The slip of loop_unroller: body and update repeated after the guard.
unroll_for_loop_unguarded(init, c, update, block) ==
    <<init>> \o Repeat(<<If(c, block, None)>> \o block \o <<update>>, max_iterations)

unroll_for_loop(init, c, update, block) ==
    <<init>> \o Repeat(<<If(c, block \o <<update>>, None)>>, max_iterations)

unroll_while_loop(c, block) == Repeat(<<If(c, block, None)>>, max_iterations)

RECURSIVE transform(_)
transform_block(items) == [i \in 1..Len(items) |-> transform(items[i])]

transform(node) ==
    CASE node.tag = "for" ->
           List(unroll_for_loop(node.init, node.cond, node.update,
                                transform_block(node.body)))
      [] node.tag = "while" ->
           List(unroll_while_loop(node.cond, transform_block(node.body)))
      [] node.tag = "if" ->
           If(node.cond, transform_block(node.then_block),
              IF node.else_block = None THEN None
              ELSE Some(transform_block(node.else_block[1])))
      [] OTHER -> node

RECURSIVE flatten(_)
flatten(lst) ==
    IF lst = <<>> THEN <<>>
    ELSE (IF Head(lst).tag = "list" THEN flatten(Head(lst).items) ELSE <<Head(lst)>>)
         \o flatten(Tail(lst))

start(items) == flatten(items)

parse_and_transform(tree) == start(transform_block(tree))

(***************************************************************************)
(* Python dictionaries and string formatting.                              *)
(***************************************************************************)
EmptyDict == <<>>
Get(d, key, default) == IF key \in DOMAIN d THEN d[key] ELSE default
Put(d, key, v) == [x \in (DOMAIN d) \cup {key} |-> IF x = key THEN v ELSE d[x]]

DigitChars == <<"0", "1", "2", "3", "4", "5", "6", "7", "8", "9">>

\* str(n) for n >= 0
RECURSIVE str(_)
str(n) == IF n < 10 THEN <<DigitChars[n + 1]>>
          ELSE str(n \div 10) \o <<DigitChars[(n % 10) + 1]>>

\* s.split('_')[0]
RECURSIVE split_first(_)
split_first(s) ==
    IF s = <<>> \/ Head(s) = "_" THEN <<>> ELSE <<Head(s)>> \o split_first(Tail(s))

(***************************************************************************)
(* ssa_converter.SSAConverter                                              *)
(***************************************************************************)
SSAConverter == [counter |-> EmptyDict, env |-> EmptyDict, ssa |-> <<>>]

SsaAssign(v, e) == [tag |-> "=", var |-> v, expr |-> e]
SsaIf(c) == [tag |-> "if", cond |-> c]
SsaAssert(c) == [tag |-> "assert", cond |-> c]

versioned(var, n) == var \o <<"_">> \o str(n)

\* A slip that hands out the version without recording it in counter.
new_version_stuck(self, var) ==
    LET n == Get(self.counter, var, 0) + 1
    IN  [self EXCEPT !.env = Put(self.env, var, versioned(var, n))]

new_version(self, var) ==
    LET n == Get(self.counter, var, 0) + 1
    IN  [self EXCEPT !.counter = Put(self.counter, var, n),
                     !.env = Put(self.env, var, versioned(var, n))]

current(self, var) == Get(self.env, var, var)

RECURSIVE transform_expr(_, _)
transform_expr(self, expr) ==
    CASE expr.tag = "var" -> Var(current(self, expr.name))
      [] expr.tag = "cond" ->
           Cond(expr.op, transform_expr(self, expr.left), transform_expr(self, expr.right))
      [] expr.tag \in {"add", "sub", "mul", "div"} ->
           Bin(expr.tag, transform_expr(self, expr.left), transform_expr(self, expr.right))
      [] OTHER -> expr

\* A slip that issues the new version before transforming the right-hand side.
handle_assignment_early(self, stmt) ==
    LET after == new_version(self, stmt.var)
    IN  [after EXCEPT !.ssa = Append(self.ssa,
           SsaAssign(after.env[stmt.var], transform_expr(after, stmt.expr)))]

handle_assignment(self, stmt) ==
    LET new_expr == transform_expr(self, stmt.expr)
        after == new_version(self, stmt.var)
    IN  [after EXCEPT !.ssa = Append(self.ssa, SsaAssign(after.env[stmt.var], new_expr))]

\* A slip that also converts the asserts found in a branch body.
RECURSIVE handle_block_deep(_, _)
handle_block_deep(self, block) ==
    IF block = <<>> THEN self
    ELSE handle_block_deep(
           CASE Head(block).tag = "assign" -> handle_assignment(self, Head(block))
             [] Head(block).tag = "assert" ->
                  [self EXCEPT !.ssa = Append(self.ssa,
                     SsaAssert(transform_expr(self, Head(block).cond)))]
             [] OTHER -> self,
           Tail(block))

\* for s in block: if s[0] == 'assign': self.handle_assignment(s)
RECURSIVE handle_block(_, _)
handle_block(self, block) ==
    IF block = <<>> THEN self
    ELSE handle_block(IF Head(block).tag = "assign"
                      THEN handle_assignment(self, Head(block))
                      ELSE self,
                      Tail(block))

\* A slip that converts the else block before the then block.
handle_if_else_first(self, stmt) ==
    LET new_cond == transform_expr(self, stmt.cond)
        marked == [self EXCEPT !.ssa = Append(self.ssa, SsaIf(new_cond))]
        after_false == IF Truthy(stmt.else_block)
                       THEN handle_block(marked, stmt.else_block[1])
                       ELSE marked
    IN  handle_block(after_false, stmt.then_block)

handle_if(self, stmt) ==
    LET new_cond == transform_expr(self, stmt.cond)
        marked == [self EXCEPT !.ssa = Append(self.ssa, SsaIf(new_cond))]
        after_true == handle_block(marked, stmt.then_block)
    IN  IF Truthy(stmt.else_block)
        THEN handle_block(after_true, stmt.else_block[1])
        ELSE after_true

handle_assert(self, stmt) ==
    [self EXCEPT !.ssa = Append(self.ssa, SsaAssert(transform_expr(self, stmt.cond)))]

\* convert: the instance after the call; the list returned is its ssa field.
RECURSIVE convert(_, _)
convert(self, a) ==
    IF a = <<>> THEN self
    ELSE LET stmt == Head(a)
             next == CASE stmt.tag = "assign" -> handle_assignment(self, stmt)
                       [] stmt.tag = "if" -> handle_if(self, stmt)
                       [] stmt.tag = "assert" -> handle_assert(self, stmt)
                       [] OTHER -> self
         IN  convert(next, Tail(a))

(***************************************************************************)
(* The Z3 terms smt_generator builds, and the solver.  A Python int is     *)
(* the literal itself (expr_to_z3 returns it unchanged), Python's True is  *)
(* ZTrue.  Z3's check() is an exhaustive search for an assignment of the   *)
(* symbols over the integers from -B to B, where B is the sum of the       *)
(* literals of the asserted formulas plus Slack: the inputs add and        *)
(* subtract literals along chains of assignments, so that no value they    *)
(* force and no boundary they compare with lies outside.                   *)
(***************************************************************************)
Slack == 1

ZTrue == [tag |-> "True"]
IntSym(name) == [tag |-> "Int", name |-> name]
App(op, l, r) == [tag |-> "app", op |-> op, left |-> l, right |-> r]
Implies(a, b) == App("=>", a, b)
Not(a) == [tag |-> "Not", arg |-> a]
And(args) == [tag |-> "And", args |-> args]
Or(args) == [tag |-> "Or", args |-> args]

Abs(n) == IF n < 0 THEN 0 - n ELSE n

RECURSIVE Eval(_, _)
Eval(t, m) ==
    CASE t.tag = "num" -> t.val
      [] t.tag = "True" -> TRUE
      [] t.tag = "Int" -> m[t.name]
      [] t.tag = "Not" -> ~Eval(t.arg, m)
      [] t.tag = "And" -> \A i \in DOMAIN t.args : Eval(t.args[i], m)
      [] t.tag = "Or" -> \E i \in DOMAIN t.args : Eval(t.args[i], m)
      [] t.tag = "app" ->
           LET l == Eval(t.left, m)
               r == Eval(t.right, m)
           IN  CASE t.op = "+" -> l + r
                 [] t.op = "-" -> l - r
                 [] t.op = "*" -> l * r
                 [] t.op = "/" /\ r > 0 -> l \div r
                 [] t.op = "/" /\ r < 0 -> 0 - (l \div (0 - r))
                 [] t.op = "<" -> l < r
                 [] t.op = ">" -> l > r
                 [] t.op = "<=" -> l <= r
                 [] t.op = ">=" -> l >= r
                 [] t.op = "==" -> l = r
                 [] t.op = "!=" -> l # r
                 [] t.op = "=>" -> (l => r)

RECURSIVE TermNames(_)
TermNames(t) ==
    CASE t.tag = "Int" -> {t.name}
      [] t.tag = "Not" -> TermNames(t.arg)
      [] t.tag \in {"And", "Or"} -> UNION {TermNames(t.args[i]) : i \in DOMAIN t.args}
      [] t.tag = "app" -> TermNames(t.left) \cup TermNames(t.right)
      [] OTHER -> {}

RECURSIVE Sum(_)
Sum(ns) == IF ns = <<>> THEN 0 ELSE Head(ns) + Sum(Tail(ns))

RECURSIVE LitSum(_)
LitSum(t) ==
    CASE t.tag = "num" -> Abs(t.val)
      [] t.tag = "Not" -> LitSum(t.arg)
      [] t.tag \in {"And", "Or"} -> Sum([i \in DOMAIN t.args |-> LitSum(t.args[i])])
      [] t.tag = "app" -> LitSum(t.left) + LitSum(t.right)
      [] OTHER -> 0

Dom(assertions) ==
    LET B == Sum([i \in DOMAIN assertions |-> LitSum(assertions[i])]) + Slack
    IN  (0 - B)..B

\* The search: the symbols get a value one at a time, in the order of names.
\* A formula is evaluated as soon as all its symbols have a value, and a symbol
\* that a formula  sym == term  defines from symbols already valued takes
\* that value only.
Prepared(assertions) == {[t |-> c, ns |-> TermNames(c)] : c \in Range(assertions)}

Ground(cs) == \A c \in cs : c.ns = {} => Eval(c.t, EmptyDict)

NewlyReady(cs, m, v) ==
    \A c \in cs : (v \in c.ns /\ c.ns \subseteq DOMAIN m) => Eval(c.t, m)

Candidates(v, m, cs, D) ==
    LET defs == {c \in cs : /\ c.t.tag = "app"
                            /\ c.t.op = "=="
                            /\ c.t.left = IntSym(v)
                            /\ TermNames(c.t.right) \subseteq DOMAIN m}
    IN  IF defs = {} THEN D ELSE {Eval(c.t.right, m) : c \in defs} \cap D

RECURSIVE SatFrom(_, _, _, _)
SatFrom(names, m, cs, D) ==
    IF names = <<>> THEN TRUE
    ELSE \E d \in Candidates(Head(names), m, cs, D) :
           LET m2 == Put(m, Head(names), d)
           IN  NewlyReady(cs, m2, Head(names)) /\ SatFrom(Tail(names), m2, cs, D)

RECURSIVE ModelsFrom(_, _, _, _)
ModelsFrom(names, m, cs, D) ==
    IF names = <<>> THEN {m}
    ELSE UNION {LET m2 == Put(m, Head(names), d)
                IN  IF NewlyReady(cs, m2, Head(names))
                    THEN ModelsFrom(Tail(names), m2, cs, D)
                    ELSE {}
                : d \in Candidates(Head(names), m, cs, D)}

\* Solver.check() == sat, and the models Solver.model() may return, for the
\* assertions over the symbols names (a sequence without repetition).
check(assertions, names) ==
    LET cs == Prepared(assertions)
    IN  Ground(cs) /\ SatFrom(names, EmptyDict, cs, Dom(assertions))

models(assertions, names) ==
    LET cs == Prepared(assertions)
    IN  IF Ground(cs) THEN ModelsFrom(names, EmptyDict, cs, Dom(assertions)) ELSE {}

(***************************************************************************)
(* smt_generator.SMTGenerator.  vars is the list of the names get_var was  *)
(* called with, in order of creation; the symbol of a name is              *)
(* Int(var_prefix + name).  SSA lists come from SSAConverter, so no        *)
(* expression is a bare string and no right-hand side a "phi(...)" text.   *)
(***************************************************************************)
SMTGenerator(ssa_code, var_prefix) ==
    [ssa_code |-> ssa_code, var_prefix |-> var_prefix, vars |-> <<>>,
     path_condition |-> ZTrue, constraints |-> <<>>, solver |-> <<>>]

get_var(self, name) == IntSym(self.var_prefix \o name)

CompOps == {"<", ">", "<=", ">=", "==", "!="}

\* A slip that encodes every arithmetic node as a subtraction.
ArithOp_sub(tag) == "-"

ArithOp(tag) ==
    CASE tag = "add" -> "+" [] tag = "sub" -> "-" [] tag = "mul" -> "*" [] tag = "div" -> "/"

RECURSIVE expr_to_z3(_, _)
expr_to_z3(self, expr) ==
    CASE expr.tag = "num" -> expr
      [] expr.tag = "var" -> get_var(self, expr.name)
      [] expr.tag = "cond" /\ expr.op \in CompOps ->
           App(expr.op, expr_to_z3(self, expr.left), expr_to_z3(self, expr.right))
      [] expr.tag \in {"add", "sub", "mul", "div"} ->
           App(ArithOp(expr.tag), expr_to_z3(self, expr.left), expr_to_z3(self, expr.right))
      [] OTHER -> expr

\* The names expr_to_z3 hands to get_var, in the order of the calls.
RECURSIVE expr_names(_)
expr_names(expr) ==
    CASE expr.tag = "var" -> <<expr.name>>
      [] expr.tag = "cond" ->
           expr_names(expr.left) \o expr_names(expr.right)
      [] expr.tag \in {"add", "sub", "mul", "div"} ->
           expr_names(expr.left) \o expr_names(expr.right)
      [] OTHER -> <<>>

\* self.vars after get_var was called with each of names in turn.
RECURSIVE add_vars(_, _)
add_vars(vs, names) ==
    IF names = <<>> THEN vs
    ELSE add_vars(IF Head(names) \in Range(vs) THEN vs ELSE Append(vs, Head(names)),
                  Tail(names))

emit(self, formula, names) ==
    [self EXCEPT !.vars = add_vars(self.vars, names),
                 !.solver = Append(self.solver, formula),
                 !.constraints = Append(self.constraints, formula)]

to_smt_stmt(self, stmt) ==
    CASE stmt.tag = "if" ->
           emit(self, Implies(self.path_condition, expr_to_z3(self, stmt.cond)),
                expr_names(stmt.cond))
      [] stmt.tag = "assert" ->
           emit(self, Implies(self.path_condition, expr_to_z3(self, stmt.cond)),
                expr_names(stmt.cond))
      [] OTHER ->
           emit(self, App("==", get_var(self, stmt.var), expr_to_z3(self, stmt.expr)),
                <<stmt.var>> \o expr_names(stmt.expr))

RECURSIVE to_smt_from(_, _)
to_smt_from(self, code) ==
    IF code = <<>> THEN self
    ELSE to_smt_from(to_smt_stmt(self, Head(code)), Tail(code))

to_smt(self) == to_smt_from(self, self.ssa_code)

RECURSIVE final_versions_from(_, _)
final_versions_from(fv, code) ==
    IF code = <<>> THEN fv
    ELSE final_versions_from(
           IF Head(code).tag = "=" 
           THEN Put(fv, split_first(Head(code).var), Head(code).var)
           ELSE fv,
           Tail(code))

get_final_versions(self) == final_versions_from(EmptyDict, self.ssa_code)

\* The symbols of self.vars, as the solver names them.
symbols(self) == [i \in DOMAIN self.vars |-> self.var_prefix \o self.vars[i]]

\* check_assertions: the results it may return (one per model Z3 may give).
check_assertions(self) ==
    IF check(self.solver, symbols(self))
    THEN {[verdict |-> "All assertions hold", model |-> m] :
            m \in models(self.solver, symbols(self))}
    ELSE {[verdict |-> "Assertion violation found", model |-> EmptyDict]}

(***************************************************************************)
(* Inputs of the unrolling specification.                                  *)
(***************************************************************************)
X == <<"x">>
Y == <<"y">>
Z == <<"z">>
I == <<"i">>

Inc(v) == Assign(v, Bin("add", Var(v), Num(1)))
XPos == AssertStmt(Cond(">", Var(X), Num(0)))
XSmall == Cond("<", Var(X), Num(2))
ISmall == Cond("<", Var(I), Num(2))

WhileX(body) == While(XSmall, body)
ForI(body) == For(Assign(I, Num(0)), ISmall, Inc(I), body)

PlainBlocks == {<<Inc(X)>>, <<Inc(X), XPos>>}
PlainLoops == {WhileX(b) : b \in PlainBlocks} \cup {ForI(b) : b \in PlainBlocks}
NestedLoops == {ForI(<<WhileX(<<Inc(X)>>)>>), WhileX(<<ForI(<<Inc(X)>>), XPos>>)}
PlainIfs ==
    {If(XSmall, <<Inc(X)>>, None),
     If(XSmall, <<XPos, Inc(X)>>, Some(<<Inc(Y)>>)),
     If(XSmall, <<Inc(X)>>, Some(<<>>)),
     If(XSmall, <<If(ISmall, <<Inc(X)>>, None), XPos>>, None)}
LoopyIfs ==
    {If(XSmall, <<WhileX(<<Inc(X)>>)>>, None),
     If(XSmall, <<Inc(X)>>, Some(<<ForI(<<Inc(X)>>)>>)),
     If(XSmall, <<If(ISmall, <<WhileX(<<Inc(X)>>)>>, None)>>, None)}

UnrollStmts ==
    {Inc(X), Assign(Y, Num(0)), XPos} \cup PlainLoops \cup NestedLoops
      \cup PlainIfs \cup LoopyIfs

UnrollInputs == SeqsUpTo(UnrollStmts, MaxStmts)

\* Statement-level and program-level structure predicates.
RECURSIVE HasLoop(_)
HasLoop(block) ==
    \E i \in 1..Len(block) :
       LET s == block[i]
       IN  \/ is_loop(s)
           \/ /\ s.tag = "if"
              /\ \/ HasLoop(s.then_block)
                 \/ (s.else_block # None /\ HasLoop(s.else_block[1]))

Unused == <<>>

(***************************************************************************)
(* Specification of the unroller: an input and a bound are chosen, and     *)
(* unroll_loops is called, then called again on its own result.            *)
(***************************************************************************)
InitUnroll ==
    /\ pc = "unroll"
    /\ unroll_bound \in 0..MaxUnroll
    /\ ast \in {<<a>> : a \in UnrollInputs}
    /\ new_ast = <<>>
    /\ calls = 0
    /\ conv = Unused
    /\ smt = Unused
    /\ eq = Unused
    /\ result = "none"

Unroll ==
    /\ pc = "unroll"
    /\ calls < MaxCalls
    /\ new_ast' = unroll_loops(IF calls = 0 THEN ast[1] ELSE new_ast, unroll_bound)
    /\ calls' = calls + 1
    /\ UNCHANGED <<pc, unroll_bound, ast, conv, smt, eq, result>>

NextUnroll == Unroll

SpecUnroll == InitUnroll /\ [][NextUnroll]_vars

(***************************************************************************)
(* Specification of verification (parser.main, option 5): a program text   *)
(* is parsed and transformed (loops unrolled by the transformer), the AST  *)
(* is converted by one SSAConverter instance (convert may be called again  *)
(* on the same instance), the SSA list is encoded and the assertions are   *)
(* checked.                                                                *)
(***************************************************************************)
MaxVStmts == 3     \* statements of a generated program text

ExampleProgram ==
    <<Assign(X, Num(10)),
      Assign(Y, Num(5)),
      If(Cond(">", Var(X), Var(Y)),
         <<Assign(Z, Bin("add", Var(X), Var(Y))), AssertStmt(Cond(">", Var(Z), Var(X)))>>,
         None),
      Assign(Y, Bin("sub", Var(Z), Num(2))),
      AssertStmt(Cond(">=", Var(Y), Num(0)))>>

\* x := c; for (i := 0; i < n; i := i + 1) { x := x + 1; } assert(x op t);
LoopProgram(c, n, op, t) ==
    <<Assign(X, Num(c)),
      For(Assign(I, Num(0)), Cond("<", Var(I), Num(n)), Inc(I), <<Inc(X)>>),
      AssertStmt(Cond(op, Var(X), Num(t)))>>

LoopPrograms ==
    {LoopProgram(c, n, op, t) : c \in {0, 1}, n \in {0, 3}, op \in {">=", "=="}, t \in {3, 4}}

VerifyStmts ==
    {Assign(X, Num(0)),
     Inc(X),
     Assign(Y, Var(X)),
     XPos,
     If(Cond(">", Var(X), Num(0)), <<Assign(Y, Num(1))>>, None),
     If(Cond("==", Var(X), Num(0)), <<Assign(X, Num(1))>>, Some(<<Assign(X, Num(2)), Inc(Y)>>)),
     If(Cond(">=", Var(X), Num(0)), <<AssertStmt(Cond(">", Var(X), Num(1))), Inc(X)>>, None),
     If(XSmall, <<If(XPos.cond, <<Assign(Y, Num(0))>>, None), Assign(Y, Num(2))>>,
        Some(<<XPos>>)),
     WhileX(<<Inc(X)>>)}

VerifyInputs == SeqsUpTo(VerifyStmts, MaxVStmts) \cup LoopPrograms \cup {ExampleProgram}

InitVerify ==
    /\ pc = "parse"
    /\ unroll_bound = max_iterations
    /\ ast \in {<<t>> : t \in VerifyInputs}
    /\ new_ast = <<>>
    /\ calls = 0
    /\ conv = <<SSAConverter>>
    /\ smt = Unused
    /\ eq = Unused
    /\ result = "none"

\* parse_and_transform
Parse ==
    /\ pc = "parse"
    /\ new_ast' = parse_and_transform(ast[1])
    /\ pc' = "convert"
    /\ UNCHANGED <<unroll_bound, ast, calls, conv, smt, eq, result>>

\* ssa = ssa_converter.convert(ast)
Convert ==
    /\ pc = "convert"
    /\ calls < MaxCalls
    /\ conv' = <<convert(conv[1], new_ast)>>
    /\ calls' = calls + 1
    /\ UNCHANGED <<pc, unroll_bound, ast, new_ast, smt, eq, result>>

\* smt = SMTGenerator(ssa); smt.to_smt()
Encode ==
    /\ pc = "convert"
    /\ calls >= 1
    /\ smt' = <<to_smt(SMTGenerator(conv[1].ssa, <<>>))>>
    /\ pc' = "check"
    /\ UNCHANGED <<unroll_bound, ast, new_ast, calls, conv, eq, result>>

\* smt.check_assertions()
CheckAssertions ==
    /\ pc = "check"
    /\ result' \in check_assertions(smt[1])
    /\ pc' = "done"
    /\ UNCHANGED <<unroll_bound, ast, new_ast, calls, conv, smt, eq>>

NextVerify == Parse \/ Convert \/ Encode \/ CheckAssertions

SpecVerify == InitVerify /\ [][NextVerify]_vars

(***************************************************************************)
(* smt_generator.check_program_equivalence, one step per solver check.     *)
(* eq holds its locals: vars1 and vars2 (the final versions), s (the       *)
(* assertions of the shared solver), todo (the common base variables not   *)
(* yet compared: a Python set, iterated in no fixed order), assertions1    *)
(* and assertions2, j (the next pair of assertions), and log, the solver   *)
(* checks made so far.                                                     *)
(***************************************************************************)
P1 == <<"p", "1", "_">>
P2 == <<"p", "2", "_">>

NoCommon == "Programs are NOT equivalent! No common variables to compare."
ValuesDiffer == "Programs are NOT equivalent!"
AssertionsDiffer == "Programs have different assertion behaviors"
Equivalent == "Programs are equivalent!"

\* get_assertions: the (assertion, current_cond) pairs of an SSA list.
RECURSIVE get_assertions_from(_, _, _)
get_assertions_from(code, current_cond, acc) ==
    IF code = <<>> THEN acc
    ELSE LET stmt == Head(code)
         IN  CASE stmt.tag = "if" -> get_assertions_from(Tail(code), Some(stmt.cond), acc)
               [] stmt.tag = "assert" ->
                    get_assertions_from(Tail(code), current_cond,
                                        Append(acc, [assertion |-> stmt.cond,
                                                     cond |-> current_cond]))
               [] OTHER -> get_assertions_from(Tail(code), current_cond, acc)

get_assertions(program) == get_assertions_from(program, None, <<>>)

Min(a, b) == IF a < b THEN a ELSE b

\* The formula added for the pair of assertions a1 (of smt1) and a2 (of smt2).
pair_formula(smt1, a1, smt2, a2) ==
    LET z3_cond1 == IF a1.cond # None THEN expr_to_z3(smt1, a1.cond[1]) ELSE ZTrue
        z3_cond2 == IF a2.cond # None THEN expr_to_z3(smt2, a2.cond[1]) ELSE ZTrue
        z3_assert1 == expr_to_z3(smt1, a1.assertion)
        z3_assert2 == expr_to_z3(smt2, a2.assertion)
    IN  Or(<<And(<<z3_cond1, z3_assert1, Not(z3_assert2)>>),
             And(<<z3_cond2, Not(z3_assert1), z3_assert2>>)>>)

all_symbols == symbols(smt[1]) \o symbols(smt[2])

MaxEqStmts == 2    \* statements after the optional first assignment to x

\* A program handed to the equivalence check: x := 1, x := 2 or nothing,
\* followed by up to MaxEqStmts statements that read x.
EqHeads == {<<>>, <<Assign(X, Num(1))>>, <<Assign(X, Num(2))>>}

EqStmts ==
    {Assign(Y, Var(X)),
     AssertStmt(Cond(">", Var(X), Num(1))),
     If(Cond("==", Var(X), Num(1)), <<Assign(X, Num(0))>>, Some(<<Assign(X, Num(2))>>))}

EqInputs == {head \o rest : head \in EqHeads, rest \in SeqsUpTo(EqStmts, MaxEqStmts)}

InitEquiv ==
    /\ pc = "convert"
    /\ unroll_bound = max_iterations
    /\ ast \in EqInputs \X EqInputs
    /\ new_ast = <<>>
    /\ calls = 0
    /\ conv = <<SSAConverter, SSAConverter>>
    /\ smt = Unused
    /\ eq = Unused
    /\ result = "none"

\* ssa1 = SSAConverter().convert(ast1); ssa2 = SSAConverter().convert(ast2)
EqConvert ==
    /\ pc = "convert"
    /\ conv' = <<convert(conv[1], ast[1]), convert(conv[2], ast[2])>>
    /\ calls' = calls + 1
    /\ pc' = "encode"
    /\ UNCHANGED <<unroll_bound, ast, new_ast, smt, eq, result>>

\* Both encoders run, the final versions are read and the shared solver filled.
EqEncode ==
    /\ pc = "encode"
    /\ LET smt1 == to_smt(SMTGenerator(conv[1].ssa, P1))
           smt2 == to_smt(SMTGenerator(conv[2].ssa, P2))
           vars1 == get_final_versions(smt1)
           vars2 == get_final_versions(smt2)
       IN  /\ smt' = <<smt1, smt2>>
           /\ eq' = [vars1 |-> vars1, vars2 |-> vars2,
                     s |-> smt1.solver \o smt2.solver,
                     todo |-> (DOMAIN vars1) \cap (DOMAIN vars2),
                     assertions1 |-> get_assertions(conv[1].ssa),
                     assertions2 |-> get_assertions(conv[2].ssa),
                     j |-> 1, log |-> <<>>]
    /\ pc' = "common"
    /\ UNCHANGED <<unroll_bound, ast, new_ast, calls, conv, result>>

\* A slip that goes on without the test of common_vars.
EqCommon_skipped ==
    /\ pc = "common"
    /\ pc' = "values"
    /\ UNCHANGED <<unroll_bound, ast, new_ast, calls, conv, smt, eq, result>>

\* if not common_vars: return ...
EqCommon ==
    /\ pc = "common"
    /\ IF eq.todo = {}
       THEN /\ result' = [verdict |-> NoCommon, model |-> EmptyDict]
            /\ pc' = "done"
       ELSE /\ pc' = "values"
            /\ UNCHANGED result
    /\ UNCHANGED <<unroll_bound, ast, new_ast, calls, conv, smt, eq>>

\* One iteration of  for base_var in common_vars.
EqValueCheck ==
    /\ pc = "values"
    /\ \E base_var \in eq.todo :
         LET var1 == eq.vars1[base_var]
             var2 == eq.vars2[base_var]
             pushed == Append(eq.s, App("!=", get_var(smt[1], var1), get_var(smt[2], var2)))
             found == check(pushed, all_symbols)
             entry == [kind |-> "value", on |-> base_var, sat |-> found]
         IN  IF found
             THEN /\ result' \in {[verdict |-> ValuesDiffer, model |-> m] :
                                    m \in models(pushed, all_symbols)}
                  /\ pc' = "done"
                  /\ eq' = [eq EXCEPT !.log = Append(@, entry)]
             ELSE /\ eq' = [eq EXCEPT !.todo = @ \ {base_var}, !.log = Append(@, entry)]
                  /\ UNCHANGED <<pc, result>>
    /\ UNCHANGED <<unroll_bound, ast, new_ast, calls, conv, smt>>

\* A slip that compares a pair of assertions while variables remain to compare.
EqAssertCheck_early ==
    /\ pc = "values"
    /\ eq.j <= Min(Len(eq.assertions1), Len(eq.assertions2))
    /\ LET pushed == Append(eq.s, pair_formula(smt[1], eq.assertions1[eq.j],
                                               smt[2], eq.assertions2[eq.j]))
           found == check(pushed, all_symbols)
           entry == [kind |-> "assert", on |-> eq.j, sat |-> found]
       IN  IF found
           THEN /\ result' \in {[verdict |-> AssertionsDiffer, model |-> m] :
                                  m \in models(pushed, all_symbols)}
                /\ pc' = "done"
                /\ eq' = [eq EXCEPT !.log = Append(@, entry)]
           ELSE /\ eq' = [eq EXCEPT !.j = @ + 1, !.log = Append(@, entry)]
                /\ UNCHANGED <<pc, result>>
    /\ UNCHANGED <<unroll_bound, ast, new_ast, calls, conv, smt>>

\* One iteration of  for (assert1, cond1), (assert2, cond2) in zip(...).
EqAssertCheck ==
    /\ pc = "values"
    /\ eq.todo = {}
    /\ eq.j <= Min(Len(eq.assertions1), Len(eq.assertions2))
    /\ LET pushed == Append(eq.s, pair_formula(smt[1], eq.assertions1[eq.j],
                                               smt[2], eq.assertions2[eq.j]))
           found == check(pushed, all_symbols)
           entry == [kind |-> "assert", on |-> eq.j, sat |-> found]
       IN  IF found
           THEN /\ result' \in {[verdict |-> AssertionsDiffer, model |-> m] :
                                  m \in models(pushed, all_symbols)}
                /\ pc' = "done"
                /\ eq' = [eq EXCEPT !.log = Append(@, entry)]
           ELSE /\ eq' = [eq EXCEPT !.j = @ + 1, !.log = Append(@, entry)]
                /\ UNCHANGED <<pc, result>>
    /\ UNCHANGED <<unroll_bound, ast, new_ast, calls, conv, smt>>

\* return "Programs are equivalent! ..."
EqEquivalent ==
    /\ pc = "values"
    /\ eq.todo = {}
    /\ eq.j > Min(Len(eq.assertions1), Len(eq.assertions2))
    /\ result' = [verdict |-> Equivalent, model |-> EmptyDict]
    /\ pc' = "done"
    /\ UNCHANGED <<unroll_bound, ast, new_ast, calls, conv, smt, eq>>

NextEquiv ==
    EqConvert \/ EqEncode \/ EqCommon \/ EqValueCheck \/ EqAssertCheck \/ EqEquivalent

SpecEquiv == InitEquiv /\ [][NextEquiv]_vars

(***************************************************************************)
(* Claims about unroll_loops (checked under SpecUnroll).                   *)
(***************************************************************************)
\* What the specification says a for statement becomes.
ForExpected(stmt, k) ==
    <<stmt.init>> \o Repeat(<<If(stmt.cond, stmt.body \o <<stmt.update>>, None)>>, k)

\* C7: every top-level for(init; cond; update){body} is replaced by init
\* followed by exactly unroll_bound copies of If(cond, body ++ [update], None)
\* and by nothing else; the other statements are as unroll_loops leaves them.
C7_ForIsInitThenGuardedCopies ==
    calls = 1 =>
      new_ast = Concat([i \in 1..Len(ast[1]) |->
                          IF ast[1][i].tag = "for"
                          THEN ForExpected(ast[1][i], unroll_bound)
                          ELSE unroll_loops(<<ast[1][i]>>, unroll_bound)])

\* C9: the result of unroll_loops holds no for and no while statement at any
\* nesting depth.
C9_NoLoopAfterUnrolling == calls >= 1 => ~HasLoop(new_ast)

\* C10: on a loop-free program unroll_loops returns the program itself (same
\* statements, same order), on the first call and on the call made on its result.
C10_LoopFreeUnchanged ==
    (calls >= 1 /\ ~HasLoop(ast[1])) => new_ast = ast[1]

C10_Witness ==
    /\ calls = 2
    /\ unroll_bound > 0
    /\ ~HasLoop(ast[1])
    /\ Len(ast[1]) = 2
    /\ ast[1][1].tag = "if"
    /\ ast[1][2].tag = "assert"
    /\ new_ast = ast[1]

\* What the specification says a while statement becomes.
WhileExpected(stmt, k) == Repeat(<<If(stmt.cond, stmt.body, None)>>, k)

\* C17: every top-level while(cond){body} is replaced by exactly unroll_bound
\* copies of If(cond, body, None) and by nothing else (no copy of body outside
\* a guard, no update); the other statements are as unroll_loops leaves them.
C17_WhileIsGuardedCopies ==
    calls = 1 =>
      new_ast = Concat([i \in 1..Len(ast[1]) |->
                          IF ast[1][i].tag = "while"
                          THEN WhileExpected(ast[1][i], unroll_bound)
                          ELSE unroll_loops(<<ast[1][i]>>, unroll_bound)])

(***************************************************************************)
(* The concrete execution of a loop-free program, which the claims about   *)
(* verification refer to: an environment of integer values, statements     *)
(* run in order, a branch run when its condition holds.                    *)
(***************************************************************************)
RECURSIVE ExprValue(_, _)
ExprValue(e, env) ==
    CASE e.tag = "num" -> e.val
      [] e.tag = "var" -> env[e.name]
      [] e.tag = "add" -> ExprValue(e.left, env) + ExprValue(e.right, env)
      [] e.tag = "sub" -> ExprValue(e.left, env) - ExprValue(e.right, env)
      [] e.tag = "mul" -> ExprValue(e.left, env) * ExprValue(e.right, env)
      [] e.tag = "cond" ->
           LET l == ExprValue(e.left, env)
               r == ExprValue(e.right, env)
           IN  CASE e.op = "<" -> l < r [] e.op = ">" -> l > r
                 [] e.op = "<=" -> l <= r [] e.op = ">=" -> l >= r
                 [] e.op = "==" -> l = r [] e.op = "!=" -> l # r

\* The state after running block from st = [env, failed]; failed records
\* that an assert with a false condition was reached, where execution stops.
RECURSIVE Run(_, _)
Run(block, st) ==
    IF block = <<>> \/ st.failed THEN st
    ELSE LET s == Head(block)
             after ==
               CASE s.tag = "assign" ->
                      [st EXCEPT !.env = Put(st.env, s.var, ExprValue(s.expr, st.env))]
                 [] s.tag = "assert" ->
                      [st EXCEPT !.failed = ~ExprValue(s.cond, st.env)]
                 [] s.tag = "if" ->
                      IF ExprValue(s.cond, st.env) THEN Run(s.then_block, st)
                      ELSE IF s.else_block # None THEN Run(s.else_block[1], st)
                      ELSE st
         IN  Run(Tail(block), after)

Execute(program) == Run(program, [env |-> EmptyDict, failed |-> FALSE])

RECURSIVE ExprVars(_)
ExprVars(e) ==
    CASE e.tag = "var" -> {e.name}
      [] e.tag \in {"cond", "add", "sub", "mul", "div"} -> ExprVars(e.left) \cup ExprVars(e.right)
      [] OTHER -> {}

\* Definite assignment: [ok, defs] after block, entered with the variables
\* defs assigned; ok says that no statement reads a variable outside them.
RECURSIVE Definite(_, _)
Definite(block, st) ==
    IF block = <<>> THEN st
    ELSE LET s == Head(block)
             after ==
               CASE s.tag = "assign" ->
                      [ok |-> st.ok /\ ExprVars(s.expr) \subseteq st.defs,
                       defs |-> st.defs \cup {s.var}]
                 [] s.tag = "assert" ->
                      [st EXCEPT !.ok = st.ok /\ ExprVars(s.cond) \subseteq st.defs]
                 [] s.tag = "if" ->
                      LET entry == [st EXCEPT !.ok = st.ok /\ ExprVars(s.cond) \subseteq st.defs]
                          t == Definite(s.then_block, entry)
                          e == IF s.else_block # None THEN Definite(s.else_block[1], entry)
                               ELSE entry
                      IN  [ok |-> t.ok /\ e.ok, defs |-> t.defs \cap e.defs]
         IN  Definite(Tail(block), after)

AssignedBeforeRead(program) == Definite(program, [ok |-> TRUE, defs |-> {}]).ok

(***************************************************************************)
(* Claims about verification (checked under SpecVerify).                   *)
(***************************************************************************)
Violation == "Assertion violation found"
AllHold == "All assertions hold"

\* C4: for a loop-free program that assigns every variable before reading
\* it, converted by a fresh converter, the verdict is 'Assertion violation
\* found' exactly when the concrete execution reaches an assert whose
\* condition is false, and 'All assertions hold' otherwise.
C4_VerdictIffExecutionFails ==
    (pc = "done" /\ calls = 1 /\ ~HasLoop(ast[1]) /\ AssignedBeforeRead(ast[1])) =>
       /\ result.verdict \in {Violation, AllHold}
       /\ (result.verdict = Violation) <=> Execute(new_ast).failed

\* C5: verifying the example program yields 'All assertions hold', and every
\* model the solver can return has x_1 = 10, y_1 = 5 and z_1 = 15.
C5_ExampleHoldsWithItsModel ==
    (pc = "done" /\ calls = 1 /\ ast[1] = ExampleProgram) =>
       /\ result.verdict = AllHold
       /\ result.model[versioned(X, 1)] = 10
       /\ result.model[versioned(Y, 1)] = 5
       /\ result.model[versioned(Z, 1)] = 15

C5_Witness ==
    /\ pc = "done"
    /\ calls = 1
    /\ ast[1] = ExampleProgram
    /\ result.verdict = AllHold
    /\ result.model[versioned(Z, 1)] = 15

\* The assignments of an SSA list whose target has base name v, in list order.
AssignsTo(ssa, v) ==
    SelectSeq(ssa, LAMBDA st : st.tag = "=" /\ split_first(st.var) = v)

\* C8: parsing and converting  x := c; for (i := 0; i < n; i := i + 1)
\* { x := x + 1; } assert(P(x));  gives an SSA list whose assignments to x
\* are, in this order, x_1 := c, x_2 := x_1 + 1, x_3 := x_2 + 1,
\* x_4 := x_3 + 1, and whose last statement is the assertion on x_4.
C8_LoopProgramSsa ==
    (pc \in {"convert", "check", "done"} /\ calls = 1 /\ ast[1] \in LoopPrograms) =>
       LET ssa == conv[1].ssa
           step(n) == SsaAssign(versioned(X, n + 1),
                                Bin("add", Var(versioned(X, n)), Num(1)))
           last == ast[1][3].cond
       IN  /\ AssignsTo(ssa, X) =
                <<SsaAssign(versioned(X, 1), ast[1][1].expr), step(1), step(2), step(3)>>
           /\ ssa[Len(ssa)] =
                SsaAssert(Cond(last.op, Var(versioned(X, 4)), last.right))

C8_Witness ==
    /\ pc = "done"
    /\ calls = 1
    /\ ast[1] = LoopProgram(0, 3, ">=", 3)
    /\ Len(AssignsTo(conv[1].ssa, X)) = 4
    /\ conv[1].ssa[Len(conv[1].ssa)].cond.left = Var(versioned(X, 4))
    /\ result.verdict = AllHold

(***************************************************************************)
(* Claims about check_program_equivalence (checked under SpecEquiv).       *)
(***************************************************************************)
RECURSIVE BlockVars(_)
BlockVars(block) ==
    IF block = <<>> THEN {}
    ELSE LET s == Head(block)
             here == CASE s.tag = "assign" -> {s.var} \cup ExprVars(s.expr)
                       [] s.tag = "assert" -> ExprVars(s.cond)
                       [] s.tag = "if" ->
                            ExprVars(s.cond) \cup BlockVars(s.then_block)
                              \cup (IF s.else_block # None THEN BlockVars(s.else_block[1])
                                    ELSE {})
         IN  here \cup BlockVars(Tail(block))

Closed(i) == AssignedBeforeRead(ast[i])

\* C1: a program checked against itself (two independent conversions of the
\* same text) gets the verdict 'Programs are equivalent'.  Stated for the
\* programs that assign a variable at top level; one that assigns none gets
\* the 'No common variables' verdict.
C1_SelfEquivalent ==
    (pc = "done" /\ ast[1] = ast[2] /\ \E i \in DOMAIN ast[1] : ast[1][i].tag = "assign")
       => result.verdict = Equivalent

\* C2: two programs that share exactly one variable name, whose executions
\* (every variable assigned before it is read, no assert failing) end with
\* different values of it, get the verdict 'Programs are NOT equivalent' with
\* a model in which the two final versions of the variable differ.
C2_DifferentFinalValuesReported ==
    (/\ pc = "done"
     /\ Closed(1) /\ Closed(2)
     /\ ~Execute(ast[1]).failed /\ ~Execute(ast[2]).failed
     /\ \E v \in BlockVars(ast[1]) :
          /\ BlockVars(ast[1]) \cap BlockVars(ast[2]) = {v}
          /\ Execute(ast[1]).env[v] # Execute(ast[2]).env[v])
       => /\ result.verdict = ValuesDiffer
          /\ \A v \in BlockVars(ast[1]) \cap BlockVars(ast[2]) :
               result.model[P1 \o eq.vars1[v]] # result.model[P2 \o eq.vars2[v]]

\* The truth values of the top-level asserts of a program without branches,
\* in order, in its concrete execution.
RECURSIVE AssertValues(_, _)
AssertValues(block, env) ==
    IF block = <<>> THEN <<>>
    ELSE LET s == Head(block)
         IN  CASE s.tag = "assign" ->
                    AssertValues(Tail(block), Put(env, s.var, ExprValue(s.expr, env)))
               [] s.tag = "assert" ->
                    <<ExprValue(s.cond, env)>> \o AssertValues(Tail(block), env)

IfFree(i) == \A k \in DOMAIN ast[i] : ast[i][k].tag # "if"

\* C3: when no value divergence was found and some positionally paired
\* assertions differ (one is violated, the other is not), the verdict is the
\* assertion-divergence one, found at the first such pair.  Stated for programs
\* without branches that assign every variable before reading it.
C3_AssertionDivergenceReported ==
    (/\ pc = "done"
     /\ Closed(1) /\ Closed(2) /\ IfFree(1) /\ IfFree(2)
     /\ result.verdict \notin {ValuesDiffer, NoCommon}
     /\ \E j \in 1..Min(Len(eq.assertions1), Len(eq.assertions2)) :
          AssertValues(ast[1], EmptyDict)[j] # AssertValues(ast[2], EmptyDict)[j])
       => /\ result.verdict = AssertionsDiffer
          /\ LET j == eq.log[Len(eq.log)].on
                 v1 == AssertValues(ast[1], EmptyDict)
                 v2 == AssertValues(ast[2], EmptyDict)
             IN  v1[j] # v2[j] /\ \A k \in 1..(j - 1) : v1[k] = v2[k]

\* C6: when the final-version maps of the two programs share no base name,
\* the verdict is 'No common variables to compare' and no solver check (of
\* values or of assertions) was made.
C6_NoCommonVariables ==
    (pc = "done" /\
     (DOMAIN get_final_versions(smt[1])) \cap (DOMAIN get_final_versions(smt[2])) = {})
       => result.verdict = NoCommon /\ eq.log = <<>>

C6_Witness ==
    /\ pc = "done"
    /\ result.verdict = NoCommon
    /\ eq.log = <<>>
    /\ DOMAIN get_final_versions(smt[1]) # {}
    /\ DOMAIN get_final_versions(smt[2]) # {}
    /\ Len(eq.assertions1) = 1
    /\ Len(eq.assertions2) = 1
    /\ eq.assertions1[1].assertion # eq.assertions2[1].assertion

(***************************************************************************)
(* Specification of SSA conversion, one step per statement of the loop of  *)
(* convert: new_ast holds the statements not yet reached, conv[1] is the   *)
(* converter, eq remembers the converter as it was before the last         *)
(* handler ran and the statement that handler was given.  After the loop   *)
(* the list goes to an SMTGenerator, whose get_final_versions is read      *)
(* into result.                                                            *)
(***************************************************************************)
MaxSsaStmts == 3   \* top-level statements of a program handed to convert

A == <<"a">>
AB == <<"a", "_", "b">>
SsaVars == {X, Y, A, AB}

YPos == Cond(">", Var(Y), Num(0))

SsaStmts ==
    {Assign(X, Num(0)),
     Inc(X),
     Assign(Y, Var(X)),
     Assign(AB, Num(1)),
     Assign(A, Var(AB)),
     XPos,
     If(XSmall, <<Inc(X)>>, None),
     If(XSmall, <<Assign(X, Num(1)), Inc(Y)>>, Some(<<Assign(X, Num(2))>>)),
     If(XSmall, <<XPos, Inc(X), If(YPos, <<Assign(Y, Num(0))>>, None)>>,
        Some(<<Assign(Y, Num(2)), XPos>>))}

SsaInputs == SeqsUpTo(SsaStmts, MaxSsaStmts)

InitSsa ==
    /\ pc = "convert"
    /\ unroll_bound = max_iterations
    /\ ast \in {<<a>> : a \in SsaInputs}
    /\ new_ast = ast[1]
    /\ calls = 0
    /\ conv = <<SSAConverter>>
    /\ smt = Unused
    /\ eq = Unused
    /\ result = "none"

\* if stmt[0] == 'assign': self.handle_assignment(stmt)
StepAssignment ==
    /\ pc = "convert"
    /\ new_ast # <<>>
    /\ Head(new_ast).tag = "assign"
    /\ conv' = <<handle_assignment(conv[1], Head(new_ast))>>
    /\ eq' = [prev |-> conv[1], stmt |-> Head(new_ast)]
    /\ new_ast' = Tail(new_ast)
    /\ UNCHANGED <<pc, unroll_bound, ast, calls, smt, result>>

\* elif stmt[0] == 'if': self.handle_if(stmt)
StepIf ==
    /\ pc = "convert"
    /\ new_ast # <<>>
    /\ Head(new_ast).tag = "if"
    /\ conv' = <<handle_if(conv[1], Head(new_ast))>>
    /\ eq' = [prev |-> conv[1], stmt |-> Head(new_ast)]
    /\ new_ast' = Tail(new_ast)
    /\ UNCHANGED <<pc, unroll_bound, ast, calls, smt, result>>

\* elif stmt[0] == 'assert': self.handle_assert(stmt)
StepAssert ==
    /\ pc = "convert"
    /\ new_ast # <<>>
    /\ Head(new_ast).tag = "assert"
    /\ conv' = <<handle_assert(conv[1], Head(new_ast))>>
    /\ eq' = [prev |-> conv[1], stmt |-> Head(new_ast)]
    /\ new_ast' = Tail(new_ast)
    /\ UNCHANGED <<pc, unroll_bound, ast, calls, smt, result>>

\* return self.ssa, handed to SMTGenerator(ssa)
ReturnSsa ==
    /\ pc = "convert"
    /\ new_ast = <<>>
    /\ smt' = <<SMTGenerator(conv[1].ssa, <<>>)>>
    /\ calls' = calls + 1
    /\ pc' = "finals"
    /\ UNCHANGED <<unroll_bound, ast, new_ast, conv, eq, result>>

\* smt.get_final_versions()
FinalVersions ==
    /\ pc = "finals"
    /\ result' = get_final_versions(smt[1])
    /\ pc' = "done"
    /\ UNCHANGED <<unroll_bound, ast, new_ast, calls, conv, smt, eq>>

NextSsa == StepAssignment \/ StepIf \/ StepAssert \/ ReturnSsa \/ FinalVersions

SpecSsa == InitSsa /\ [][NextSsa]_vars

(***************************************************************************)
(* Claims about SSAConverter (checked under SpecSsa).                      *)
(***************************************************************************)
\* name is base_k for some k in 1..n
IsVersionOf(name, base, n) == \E k \in 1..n : name = versioned(base, k)

\* The assignments of an SSA list whose target is a version of base.
TargetsOf(ssa, base) ==
    SelectSeq(ssa, LAMBDA st : st.tag = "=" /\ IsVersionOf(st.var, base, Len(ssa)))

DirectAssigns(block) == SelectSeq(block, LAMBDA st : st.tag = "assign")

\* The assignments of a top-level statement in the order of the text: the
\* statement itself, or the direct children of a then-block, then those of
\* the else-block.
TextAssigns(stmt) ==
    CASE stmt.tag = "assign" -> <<stmt>>
      [] stmt.tag = "if" ->
           DirectAssigns(stmt.then_block) \o
           (IF stmt.else_block # None THEN DirectAssigns(stmt.else_block[1]) ELSE <<>>)
      [] OTHER -> <<>>

CountVar(assigns, v) == Len(SelectSeq(assigns, LAMBDA st : st.var = v))

\* The statements the loop of convert has gone through.
Processed == SubSeq(ast[1], 1, Len(ast[1]) - Len(new_ast))

\* The expression an SSA statement carries.
SsaExpr(st) == IF st.tag = "=" THEN st.expr ELSE st.cond

\* C11: in the SSA list of a fresh converter the assignment targets of every
\* base name v are, in list order, v_1, v_2, ..., v_n, one per assignment to
\* v gone through (at top level, in a then-block or in an else-block); every
\* target is a version of a name of the program.
C11_VersionsCountUpFromOne ==
    LET ssa == conv[1].ssa
        done == Concat([i \in 1..Len(Processed) |-> TextAssigns(Processed[i])])
    IN  /\ \A v \in SsaVars :
             LET ts == TargetsOf(ssa, v)
             IN  /\ Len(ts) = CountVar(done, v)
                 /\ \A i \in 1..Len(ts) : ts[i].var = versioned(v, i)
        /\ \A i \in 1..Len(ssa) :
             ssa[i].tag = "=" => \E v \in SsaVars : IsVersionOf(ssa[i].var, v, Len(ssa))

C11_Witness ==
    /\ pc = "done"
    /\ \E i \in 1..Len(ast[1]) :
         /\ ast[1][i].tag = "if"
         /\ ast[1][i].else_block # None
         /\ CountVar(TextAssigns(ast[1][i]), X) = 2
    /\ Len(TargetsOf(conv[1].ssa, X)) = 3
    /\ TargetsOf(conv[1].ssa, X)[3].var = versioned(X, 3)

\* C12: every variable occurrence in an expression of the SSA list (a
\* right-hand side, a branch condition, an assert condition) is a versioned
\* name base_n with n >= 1.
C12_EveryOccurrenceVersioned ==
    LET ssa == conv[1].ssa
    IN  \A i \in 1..Len(ssa) :
          \A name \in ExprVars(SsaExpr(ssa[i])) :
            \E v \in SsaVars : IsVersionOf(name, v, Len(ssa) + 1)

(***************************************************************************)
(* Claims about SMTGenerator.to_smt (checked under SpecVerify).            *)
(***************************************************************************)
\* The positions of code before i that hold a Branch.
BranchesBefore(code, i) == {j \in 1..(i - 1) : code[j].tag = "if"}

Last(S) == CHOOSE j \in S : \A k \in S : k <= j

\* The path condition the specification gives the statement at position i:
\* the translation of the nearest Branch before it, true when there is none.
PathConditionAt(self, i) ==
    IF BranchesBefore(self.ssa_code, i) = {} THEN ZTrue
    ELSE expr_to_z3(self, self.ssa_code[Last(BranchesBefore(self.ssa_code, i))].cond)

\* C13: once to_smt has run, the constraint of every Assert(a) that follows a
\* Branch(c) is translate(c) => translate(a), that of an Assert before every
\* Branch is True => translate(a), and the encoder's path condition is the
\* translation of the last Branch.
C13_PathConditionFollowsBranch ==
    pc \in {"check", "done"} =>
      LET self == smt[1]
          code == self.ssa_code
      IN  /\ \A i \in 1..Len(code) :
               code[i].tag = "assert" =>
                 self.solver[i] = Implies(PathConditionAt(self, i),
                                          expr_to_z3(self, code[i].cond))
          /\ self.path_condition = PathConditionAt(self, Len(code) + 1)

(***************************************************************************)
(* Claims about the handlers of SSAConverter (checked under SpecSsa): the  *)
(* converter before the last handler ran is eq.prev, the statement it was  *)
(* given eq.stmt, the converter after it conv[1].                          *)
(***************************************************************************)
Stepped == Len(Processed) >= 1

\* What the last handler appended to the SSA list.
Emitted == SubSeq(conv[1].ssa, Len(eq.prev.ssa) + 1, Len(conv[1].ssa))

ExprTags == {"num", "var", "add", "sub", "mul", "div", "cond"}

\* The version of v before the last handler ran: v_n, or the bare name.
Before(v) ==
    IF Get(eq.prev.counter, v, 0) = 0 THEN v
    ELSE versioned(v, Get(eq.prev.counter, v, 0))

\* C14: after handle_if, a variable assigned in the then- or else-block
\* resolves to the target of the last assignment to it in the order then,
\* else; a variable assigned in neither resolves as before the if; what was
\* appended after the Branch are assignments of expressions only (no phi).
C14_LastProcessedBranchWins ==
    (Stepped /\ eq.stmt.tag = "if") =>
       LET seq == TextAssigns(eq.stmt)
           assigns == Tail(Emitted)
       IN  /\ Emitted[1].tag = "if"
           /\ \A j \in 1..Len(assigns) :
                assigns[j].tag = "=" /\ assigns[j].expr.tag \in ExprTags
           /\ \A v \in SsaVars :
                LET at == {j \in 1..Len(seq) : seq[j].var = v}
                IN  IF at = {}
                    THEN current(conv[1], v) = current(eq.prev, v)
                    ELSE /\ Last(at) <= Len(assigns)
                         /\ current(conv[1], v) = assigns[Last(at)].var
                         /\ IsVersionOf(assigns[Last(at)].var, v, Len(conv[1].ssa))

C14_Witness ==
    /\ Stepped
    /\ eq.stmt.tag = "if"
    /\ eq.stmt.else_block # None
    /\ CountVar(DirectAssigns(eq.stmt.then_block), X) = 1
    /\ CountVar(DirectAssigns(eq.stmt.else_block[1]), X) = 1
    /\ current(eq.prev, X) = versioned(X, 1)
    /\ current(conv[1], X) = versioned(X, 3)
    /\ Emitted[Len(Emitted)] = SsaAssign(versioned(X, 3), Num(2))
    /\ current(conv[1], A) = current(eq.prev, A)

\* Whether a block holds a nested if or an assert.
HasNested(block) == \E j \in 1..Len(block) : block[j].tag \in {"if", "assert"}

\* C15: for an If with a nested if or assert in a block, handle_if appends one
\* Branch and then one assignment per direct assign child (then-block first,
\* else-block next, each in source order) and nothing else; the counters
\* advance by the direct assign children only.
C15_NestedStatementsIgnored ==
    (/\ Stepped
     /\ eq.stmt.tag = "if"
     /\ \/ HasNested(eq.stmt.then_block)
        \/ (eq.stmt.else_block # None /\ HasNested(eq.stmt.else_block[1]))) =>
       LET seq == TextAssigns(eq.stmt)
       IN  /\ SubSeq(conv[1].ssa, 1, Len(eq.prev.ssa)) = eq.prev.ssa
           /\ Len(Emitted) = 1 + Len(seq)
           /\ Emitted[1].tag = "if"
           /\ \A j \in 1..Len(seq) :
                /\ Emitted[j + 1].tag = "="
                /\ IsVersionOf(Emitted[j + 1].var, seq[j].var, Len(conv[1].ssa))
           /\ \A v \in SsaVars :
                Get(conv[1].counter, v, 0) = Get(eq.prev.counter, v, 0) + CountVar(seq, v)

C15_Witness ==
    /\ Stepped
    /\ eq.stmt.tag = "if"
    /\ HasNested(eq.stmt.then_block)
    /\ \E j \in 1..Len(eq.stmt.then_block) : eq.stmt.then_block[j].tag = "if"
    /\ eq.stmt.else_block # None
    /\ HasNested(eq.stmt.else_block[1])
    /\ Len(Emitted) = 3
    /\ Get(conv[1].counter, Y, 0) = Get(eq.prev.counter, Y, 0) + 1

\* C16: for v := e handled when v is at version n, the target is v_(n+1), the
\* right-hand side never mentions v_(n+1) and mentions v_n (the bare v when
\* n = 0) wherever e mentions v; x := x + 1 gives x_(n+1) := x_n + 1.
C16_RhsReadsOldVersion ==
    (Stepped /\ eq.stmt.tag = "assign") =>
       LET v == eq.stmt.var
           n == Get(eq.prev.counter, v, 0)
           st == conv[1].ssa[Len(conv[1].ssa)]
       IN  /\ st.tag = "="
           /\ st.var = versioned(v, n + 1)
           /\ current(conv[1], v) = versioned(v, n + 1)
           /\ versioned(v, n + 1) \notin ExprVars(st.expr)
           /\ v \in ExprVars(eq.stmt.expr) => Before(v) \in ExprVars(st.expr)
           /\ eq.stmt = Inc(v) =>
                st = SsaAssign(versioned(v, n + 1), Bin("add", Var(Before(v)), Num(1)))

C16_Witness ==
    /\ Stepped
    /\ eq.stmt = Inc(X)
    /\ Get(eq.prev.counter, X, 0) = 2
    /\ conv[1].ssa[Len(conv[1].ssa)] =
         SsaAssign(versioned(X, 3), Bin("add", Var(versioned(X, 2)), Num(1)))

(***************************************************************************)
(* Claim about SMTGenerator.get_final_versions (checked under SpecSsa).    *)
(***************************************************************************)
\* C18: the map of final versions sends every assigned base name (also one
\* holding an underscore) to the target of its last assignment in the list,
\* and has no other key.
C18_FinalVersionPerBaseName ==
    pc = "done" =>
      LET ssa == smt[1].ssa_code
          assigned == {v \in SsaVars : TargetsOf(ssa, v) # <<>>}
      IN  /\ DOMAIN result = assigned
          /\ \A v \in assigned :
               result[v] = TargetsOf(ssa, v)[Len(TargetsOf(ssa, v))].var

(***************************************************************************)
(* Claim about the order of the checks of check_program_equivalence        *)
(* (checked under SpecEquiv).                                              *)
(***************************************************************************)
\* The disequality of the final versions of base_var can be satisfied.
Diverges(base_var) ==
    check(Append(eq.s, App("!=", get_var(smt[1], eq.vars1[base_var]),
                                 get_var(smt[2], eq.vars2[base_var]))),
          all_symbols)

\* C19: every comparison of a shared variable comes before every comparison of
\* assertions; assertions are compared only after the disequality was
\* unsatisfiable for each shared variable; a satisfiable check is the last one
\* made and decides the verdict; when some shared variable diverges the verdict
\* is the value divergence and no pair of assertions was examined.
C19_ValuesBeforeAssertions ==
    pc \in {"common", "values", "done"} =>
      LET log == eq.log
          common == (DOMAIN eq.vars1) \cap (DOMAIN eq.vars2)
          values == {i \in 1..Len(log) : log[i].kind = "value"}
          asserts == {i \in 1..Len(log) : log[i].kind = "assert"}
      IN  /\ \A i \in asserts : \A k \in values : k < i
          /\ asserts # {} =>
               /\ {log[k].on : k \in values} = common
               /\ \A k \in values : ~log[k].sat
          /\ \A k \in values : \A l \in values : log[k].on = log[l].on => k = l
          /\ \A i \in 1..Len(log) :
               log[i].sat =>
                 /\ i = Len(log)
                 /\ pc = "done"
                 /\ result.verdict = IF log[i].kind = "value" THEN ValuesDiffer
                                     ELSE AssertionsDiffer
          /\ (pc = "done" /\ \E v \in common : Diverges(v)) =>
               /\ result.verdict = ValuesDiffer
               /\ asserts = {}

C19_Witness ==
    /\ pc = "done"
    /\ result.verdict = ValuesDiffer
    /\ Len(eq.log) = 1
    /\ eq.log[1].kind = "value"
    /\ Len(eq.assertions1) >= 1
    /\ Len(eq.assertions2) >= 1
    /\ check(<<pair_formula(smt[1], eq.assertions1[1], smt[2], eq.assertions2[1])>>,
             all_symbols)

(***************************************************************************)
(* Specification of expr_to_z3 alone: an expression is chosen, of a shape  *)
(* the encoder knows or not, and translated by a new SMTGenerator; result  *)
(* records how the call ended and the value it returned.                   *)
(***************************************************************************)
Operands == {Num(0), Num(1), Var(X), Var(Y)}

ArithTags == {"add", "sub", "mul", "div"}

\* A tuple with a tag, or a comparison with an operator, that expr_to_z3
\* has no case for.
UnknownTag == "mod"
UnknownOp == "<>"

FlatExprs ==
    {Bin(t, l, r) : t \in ArithTags \cup {UnknownTag}, l \in Operands, r \in Operands}
      \cup {Cond(op, l, r) : op \in CompOps \cup {UnknownOp}, l \in Operands, r \in Operands}

NestedExprs ==
    {Cond(op, Bin(t, Var(X), Num(1)), Var(Y)) :
       op \in {"<", UnknownOp}, t \in {"add", UnknownTag}}

TranslateInputs == Operands \cup FlatExprs \cup NestedExprs

InitTranslate ==
    /\ pc = "translate"
    /\ unroll_bound = max_iterations
    /\ ast \in {<<e>> : e \in TranslateInputs}
    /\ new_ast = <<>>
    /\ calls = 0
    /\ conv = Unused
    /\ smt = <<SMTGenerator(<<>>, <<>>)>>
    /\ eq = Unused
    /\ result = "none"

\* self.expr_to_z3(expr)
Translate ==
    /\ pc = "translate"
    /\ result' = [outcome |-> "returned", value |-> expr_to_z3(smt[1], ast[1])]
    /\ smt' = <<[smt[1] EXCEPT !.vars = add_vars(@, expr_names(ast[1]))]>>
    /\ calls' = calls + 1
    /\ pc' = "done"
    /\ UNCHANGED <<unroll_bound, ast, new_ast, conv, eq>>

NextTranslate == Translate

SpecTranslate == InitTranslate /\ [][NextTranslate]_vars

(***************************************************************************)
(* Claim about expr_to_z3 (checked under SpecTranslate).                   *)
(***************************************************************************)
\* The shapes expr_to_z3 has a case for.
Recognized(expr) ==
    \/ expr.tag \in {"num", "var"}
    \/ expr.tag \in ArithTags
    \/ expr.tag = "cond" /\ expr.op \in CompOps

\* C20: translating an expression of a shape the encoder does not recognize
\* ends in an encoding error raised by expr_to_z3; the expression is never
\* handed back as the result of the translation.
C20_UnknownShapeRaises ==
    (pc = "done" /\ ~Recognized(ast[1])) =>
       /\ result.outcome = "raised"
       /\ result.value # ast[1]

(***************************************************************************)
(* Claim about successive calls of convert on one SSAConverter (checked    *)
(* under SpecVerify, whose Convert may run again on the same instance).    *)
(***************************************************************************)
\* C21: the list convert(p) returns, on any call made on an instance, is the
\* list a new converter returns for p: versions restart at 1 and no statement
\* of an earlier call is in it.
C21_EveryCallStartsEmpty ==
    calls >= 1 => conv[1].ssa = convert(SSAConverter, new_ast).ssa

=============================================================================
